---------------------------- MODULE Spec2Model ----------------------------
(***************************************************************************)
(* ResumeCoach (src/app.py): one Streamlit script.  Every button click     *)
(* re-runs the script top to bottom in a fresh namespace; the run          *)
(* validates the two inputs, extracts the resume text, calls the Groq chat *)
(* completion endpoint and renders the reply (parsed JSON feedback for the *)
(* critique button, markdown for the rewrite button).                      *)
(*                                                                         *)
(* Texts are sequences of tokens.  A reply of the model is the token       *)
(* sequence of its content; json.loads is modelled by a recursive-descent  *)
(* parser over those tokens.                                               *)
(***************************************************************************)
EXTENDS Integers, Sequences, FiniteSets, TLC

VARIABLES
    uploaded_resume,   \* st.file_uploader value: NoFile or an uploaded file
    job_description,   \* st.text_area value
    pc,                \* position of the running script
    flow,              \* which button is True in this run
    resume_text,       \* script variable resume_text
    feedback,          \* script variable feedback
    draft,             \* script variable draft
    ui,                \* elements rendered by this run, in order
    calls,             \* external calls made by this run, in order
    exc,               \* exception that escaped the script run ("none" if none)
    gw                 \* what client.chat.completions.create did in this run

vars == <<uploaded_resume, job_description, pc, flow, resume_text,
          feedback, draft, ui, calls, exc, gw>>

----------------------------------------------------------------------------
(* Bounds                                                                  *)

MaxPages == 2        \* pages of a PDF
MaxParas == 2        \* paragraphs of a DOCX
MaxReplyLen == 3     \* tokens of an arbitrary (enumerated) reply

----------------------------------------------------------------------------
(* JSON values as Python objects.  t is the Python type; exactly one of    *)
(* n, s, l, o carries the payload, the others hold their neutral value.    *)
(* A dict is its item list in insertion order, keys unique.                *)

PyNone == [t |-> "NoneType", n |-> 0, s |-> "", l |-> <<>>, o |-> <<>>]
PyInt(k) == [t |-> "int", n |-> k, s |-> "", l |-> <<>>, o |-> <<>>]
PyStr(x) == [t |-> "str", n |-> 0, s |-> x, l |-> <<>>, o |-> <<>>]
PyList(xs) == [t |-> "list", n |-> 0, s |-> "", l |-> xs, o |-> <<>>]
PyDict(items) == [t |-> "dict", n |-> 0, s |-> "", l |-> <<>>, o |-> items]

\* Python truthiness (the tests `if feedback:` / `if page_text:`).
Truthy(v) ==
    CASE v.t = "NoneType" -> FALSE
      [] v.t = "int" -> v.n # 0
      [] v.t = "str" -> v.s # ""
      [] v.t = "list" -> Len(v.l) > 0
      [] v.t = "dict" -> Len(v.o) > 0

\* dict.__setitem__: replace the value of an existing key in place, else append.
DictSet(items, k, v) ==
    IF \E i \in 1..Len(items) : items[i].k = k
    THEN [i \in 1..Len(items) |-> IF items[i].k = k THEN [k |-> k, v |-> v] ELSE items[i]]
    ELSE Append(items, [k |-> k, v |-> v])

\* dict.get(key, default)
DictGet(d, key, default) ==
    IF \E i \in 1..Len(d.o) : d.o[i].k = key
    THEN d.o[CHOOSE i \in 1..Len(d.o) : d.o[i].k = key].v
    ELSE default

----------------------------------------------------------------------------
(* Tokens of a reply                                                       *)

NumTok == {"-5", "0", "57", "80", "100", "140"}
NumVal(tok) ==
    CASE tok = "-5" -> 0 - 5
      [] tok = "0" -> 0
      [] tok = "57" -> 57
      [] tok = "80" -> 80
      [] tok = "100" -> 100
      [] tok = "140" -> 140

\* The six keys of the feedback object named in the system prompt.
ListKeys == <<"missing_keywords", "formatting_suggestions",
              "experience_improvements", "overall_tips">>
FieldKeys == {"match_score", "summary"} \cup {ListKeys[i] : i \in 1..4}

\* String literals: the keys, a few values and the empty string "".
StrTok == FieldKeys \cup {"tip", "good", "high", ""}
Punct == {"{", "}", "[", "]", ",", ":", ")"}
Token == NumTok \cup StrTok \cup Punct \cup {"null"}

----------------------------------------------------------------------------
(* json.loads                                                              *)

ParseFail == [ok |-> FALSE, val |-> PyNone, next |-> 0]
ParseOk(v, nx) == [ok |-> TRUE, val |-> v, next |-> nx]

RECURSIVE ParseValue(_, _), ParseElems(_, _, _), ParseMembers(_, _, _)

\* value at position i of toks; next is the position after it
ParseValue(toks, i) ==
    IF i > Len(toks) THEN ParseFail
    ELSE LET tok == toks[i] IN
         CASE tok \in NumTok -> ParseOk(PyInt(NumVal(tok)), i + 1)
           [] tok \in StrTok -> ParseOk(PyStr(tok), i + 1)
           [] tok = "null" -> ParseOk(PyNone, i + 1)
           [] tok = "[" ->
                IF i + 1 <= Len(toks) /\ toks[i + 1] = "]"
                THEN ParseOk(PyList(<<>>), i + 2)
                ELSE ParseElems(toks, i + 1, <<>>)
           [] tok = "{" ->
                IF i + 1 <= Len(toks) /\ toks[i + 1] = "}"
                THEN ParseOk(PyDict(<<>>), i + 2)
                ELSE ParseMembers(toks, i + 1, <<>>)
           [] OTHER -> ParseFail

\* elements of an array after "[" or ","
ParseElems(toks, i, acc) ==
    LET r == ParseValue(toks, i) IN
    IF ~r.ok \/ r.next > Len(toks) THEN ParseFail
    ELSE CASE toks[r.next] = "," -> ParseElems(toks, r.next + 1, Append(acc, r.val))
           [] toks[r.next] = "]" -> ParseOk(PyList(Append(acc, r.val)), r.next + 1)
           [] OTHER -> ParseFail

\* members of an object after "{" or ","; a repeated key keeps the last value
ParseMembers(toks, i, acc) ==
    IF i + 1 > Len(toks) \/ toks[i] \notin StrTok \/ toks[i + 1] # ":" THEN ParseFail
    ELSE LET r == ParseValue(toks, i + 2) IN
         IF ~r.ok \/ r.next > Len(toks) THEN ParseFail
         ELSE LET acc2 == DictSet(acc, toks[i], r.val) IN
              CASE toks[r.next] = "," -> ParseMembers(toks, r.next + 1, acc2)
                [] toks[r.next] = "}" -> ParseOk(PyDict(acc2), r.next + 1)
                [] OTHER -> ParseFail

\* json.loads(s): one value spanning the whole text, else JSONDecodeError
json_loads(toks) ==
    LET r == ParseValue(toks, 1) IN
    IF r.ok /\ r.next = Len(toks) + 1 THEN r ELSE ParseFail

----------------------------------------------------------------------------
(* Script variables.  b is the binding: "unbound" (never assigned in this  *)
(* run), "none" (Python None), "str" (text s) or "json" (parsed value v).  *)

Unbound == [b |-> "unbound", s |-> <<>>, v |-> PyNone]
VNone == [b |-> "none", s |-> <<>>, v |-> PyNone]
VStr(txt) == [b |-> "str", s |-> txt, v |-> PyNone]
VJson(val) == IF val.t = "NoneType" THEN VNone ELSE [b |-> "json", s |-> <<>>, v |-> val]

\* `if x:` on a bound script variable
VarTruthy(x) ==
    CASE x.b = "none" -> FALSE
      [] x.b = "str" -> Len(x.s) > 0
      [] x.b = "json" -> Truthy(x.v)

\* one rendered element: the Streamlit call and its argument
Elem(widget, x) == [w |-> widget, x |-> x]

----------------------------------------------------------------------------
(* Uploaded files.  bad: the library that opens the bytes raises.  parts:  *)
(* the page texts (PDF; <<>> is a page without text), the paragraph texts  *)
(* (DOCX) or the decoded text (anything else).                             *)

NoFile == [name |-> "", bad |-> FALSE, parts |-> <<>>]

FileNames == {"resume.pdf", "resume.PDF", "resume.docx", "resume.txt"}

\* os.path.splitext(uploaded_file.name)[1].lower()
file_extension(name) ==
    CASE name \in {"resume.pdf", "resume.PDF"} -> ".pdf"
      [] name = "resume.docx" -> ".docx"
      [] name = "resume.txt" -> ".txt"

PartTexts == {<<>>, <<"Jane Doe">>}

SeqsUpTo(S, n) == UNION {[1..k -> S] : k \in 0..n}

MaxParts(name) ==
    CASE file_extension(name) = ".pdf" -> MaxPages
      [] file_extension(name) = ".docx" -> MaxParas
      [] OTHER -> 1

Files ==
    {[name |-> nm, bad |-> TRUE, parts |-> <<>>] : nm \in FileNames}
    \cup UNION {{[name |-> nm, bad |-> FALSE, parts |-> ps] :
                    ps \in SeqsUpTo(PartTexts, MaxParts(nm))} : nm \in FileNames}

RECURSIVE PdfText(_), DocxJoin(_)

\* the loop over pdf.pages: text += page_text + "\n" for every page with text
PdfText(pages) ==
    IF pages = <<>> THEN <<>>
    ELSE LET rest == PdfText(Tail(pages)) IN
         IF Len(Head(pages)) > 0 THEN Head(pages) \o <<"\n">> \o rest ELSE rest

\* "\n".join(full_text)
DocxJoin(paras) ==
    IF paras = <<>> THEN <<>>
    ELSE IF Len(paras) = 1 THEN Head(paras)
    ELSE Head(paras) \o <<"\n">> \o DocxJoin(Tail(paras))

\* io.TextIOWrapper(uploaded_file, encoding='utf-8').read()
TxtRead(parts) == IF parts = <<>> THEN <<>> ELSE Head(parts)

\* what each except clause of get_resume_text returns
ExtractFailed(ext) == VNone

\* get_resume_text: the returned value and the st.error it shows, if any
get_resume_text(f) ==
    LET ext == file_extension(f.name) IN
    CASE ext = ".pdf" ->
           IF f.bad
           THEN [ret |-> ExtractFailed(ext), shown |-> <<Elem("error", VStr(<<"Error reading PDF file: ", "e">>))>>]
           ELSE [ret |-> VStr(PdfText(f.parts)), shown |-> <<>>]
      [] ext = ".docx" ->
           IF f.bad
           THEN [ret |-> ExtractFailed(ext), shown |-> <<Elem("error", VStr(<<"Error reading DOCX file: ", "e">>))>>]
           ELSE [ret |-> VStr(DocxJoin(f.parts)), shown |-> <<>>]
      [] OTHER ->
           IF f.bad
           THEN [ret |-> ExtractFailed(ext), shown |-> <<Elem("error", VStr(<<"Error reading file: ", "e">>))>>]
           ELSE [ret |-> VStr(TxtRead(f.parts)), shown |-> <<>>]

----------------------------------------------------------------------------
(* Job descriptions and prompts                                            *)

JobDescriptions == {"", " ", "Looking for a Python engineer"}

\* user_prompt of get_ai_feedback
FeedbackUserPrompt(text, jd) ==
    <<"Here is the resume:", "---">> \o text
        \o <<"---", "Here is the job description:", "---", jd, "---">>

\* user_prompt of create_optimized_draft
DraftUserPrompt(text, jd) ==
    <<"Here is the original resume text:", "---">> \o text
        \o <<"---", "Here is the job description:", "---", jd, "---">>

\* one external call of a run: the callee and the user prompt it is given
Call(f, user) == [f |-> f, user |-> user]

----------------------------------------------------------------------------
(* Replies of the chat completion: response.choices[0].message.content     *)

AllKeys == <<"match_score", "summary">> \o ListKeys

ScoreToks == NumTok \cup {"high", "null"}

\* the member `key: value` of a well-formed reply
FieldTokens(k, scoreTok) ==
    CASE k = "match_score" -> <<k, ":", scoreTok>>
      [] k = "summary" -> <<k, ":", "good">>
      [] k = "formatting_suggestions" -> <<k, ":", "[", "]">>
      [] k = "experience_improvements" -> <<k, ":", "[", "tip", ",", "good", "]">>
      [] OTHER -> <<k, ":", "[", "tip", "]">>

RECURSIVE MemberTokens(_, _)
MemberTokens(keys, scoreTok) ==
    IF keys = <<>> THEN <<>>
    ELSE IF Len(keys) = 1 THEN FieldTokens(Head(keys), scoreTok)
    ELSE FieldTokens(Head(keys), scoreTok) \o <<",">> \o MemberTokens(Tail(keys), scoreTok)

\* a JSON object with the fields `keys`, in the order of the prompt
ObjReply(keys, scoreTok) == <<"{">> \o MemberTokens(keys, scoreTok) \o <<"}">>

KeysIn(S) == SelectSeq(AllKeys, LAMBDA k : k \in S)

FullReply == ObjReply(AllKeys, "57")

\* every choice of present fields (the empty object included), every score
WellFormedReplies ==
    {ObjReply(KeysIn(S), "57") : S \in SUBSET FieldKeys}
    \cup {ObjReply(AllKeys, sc) : sc \in ScoreToks}
    \cup {ObjReply(<<"match_score">>, sc) : sc \in ScoreToks}

\* the full reply cut short after n tokens
TruncatedReplies == {SubSeq(FullReply, 1, n) : n \in 0..(Len(FullReply) - 1)}

\* a stray ")" right before one closing bracket or brace of r
StrayParen(r) ==
    {SubSeq(r, 1, i - 1) \o <<")">> \o SubSeq(r, i, Len(r)) :
        i \in {j \in 1..Len(r) : r[j] \in {"]", "}"}}}

StrayReplies ==
    StrayParen(FullReply) \cup StrayParen(ObjReply(<<"overall_tips">>, "57"))

\* valid JSON that is not the object asked for, or whose fields have other types
OddReplies ==
    { <<"[", "tip", "]">>, <<"57">>, <<"0">>, <<"tip">>, <<"">>, <<"null">>,
      <<"{", "missing_keywords", ":", "57", "}">>,
      <<"{", "match_score", ":", "57", ",", "overall_tips", ":", "null", "}">>,
      <<"{", "overall_tips", ":", "tip", "}">>,
      <<"{", "overall_tips", ":", "{", "summary", ":", "good", "}", "}">>,
      <<"{", "match_score", ":", "57", ",", "match_score", ":", "140", "}">>,
      <<"{", "match_score", ":", "57", "}", "tip">> }

MarkdownReplies == { <<"**Jane Doe**", "\n", "...">>, <<" ">> }

\* every token sequence up to MaxReplyLen over a small alphabet
EnumTok == {"{", "}", "[", "]", ",", ")", "57"}
EnumReplies == SeqsUpTo(EnumTok, MaxReplyLen)

Replies ==
    WellFormedReplies \cup TruncatedReplies \cup StrayReplies \cup OddReplies
        \cup MarkdownReplies \cup EnumReplies

\* what client.chat.completions.create(...) and the access to
\* response.choices[0].message.content can raise
GatewayExceptions ==
    {"AuthenticationError", "APIConnectionError", "APITimeoutError",
     "RateLimitError", "InternalServerError", "IndexError"}

NoGateway == [r |-> "none", e |-> "", content |-> VNone]

GatewayOutcomes ==
    {[r |-> "raised", e |-> x, content |-> VNone] : x \in GatewayExceptions}
    \cup {[r |-> "returned", e |-> "", content |-> VNone]}
    \cup {[r |-> "returned", e |-> "", content |-> VStr(t)] : t \in Replies}

----------------------------------------------------------------------------
(* get_ai_feedback and create_optimized_draft                              *)

\* a handler that answers a failed call with a default record
ApiErrorReturn_Fallback(e) == VJson(PyDict(<<[k |-> "match_score", v |-> PyInt(0)]>>))

\* `except Exception as e: st.error(...); return None`
ApiErrorReturn(e) == VNone

\* a handler that answers an unparsable reply with a record made up from it
JsonErrorReturn_Partial(raw) ==
    VJson(PyDict(<<[k |-> "summary", v |-> PyStr(IF raw = <<>> THEN "" ELSE "good")]>>))

\* `except json.JSONDecodeError as e: st.error(...) x2; return None`
JsonErrorReturn(raw) == VNone

ApiErrorShown(e) == <<Elem("error", VStr(<<"API Error: ", e>>))>>

JsonErrorShown ==
    << Elem("error", VStr(<<"JSON decoding error: ", "e">>)),
       Elem("error", VStr(<<"The API response was not valid JSON. See raw response above.">>)) >>

\* the debug text area shown between the call and json.loads
RawShown(label, content) == <<Elem(label, content)>>

\* get_ai_feedback(resume_text, job_description) when the endpoint does `out`
get_ai_feedback(text, jd, out) ==
    LET create == Call("client.chat.completions.create", FeedbackUserPrompt(text, jd)) IN
    IF out.r = "raised"
    THEN [ret |-> ApiErrorReturn(out.e), shown |-> ApiErrorShown(out.e), made |-> <<create>>]
    ELSE LET raw == RawShown("text_area: Raw API Response (Feedback)", out.content)
             loads == Call("json.loads", <<>>) IN
         IF out.content.b = "none"
         THEN \* json.loads(None) raises TypeError, caught by `except Exception`
              [ret |-> ApiErrorReturn("TypeError"),
               shown |-> raw \o ApiErrorShown("TypeError"), made |-> <<create, loads>>]
         ELSE LET r == json_loads(out.content.s) IN
              IF r.ok
              THEN [ret |-> VJson(r.val), shown |-> raw, made |-> <<create, loads>>]
              ELSE [ret |-> JsonErrorReturn(out.content.s),
                    shown |-> raw \o JsonErrorShown, made |-> <<create, loads>>]

\* create_optimized_draft(resume_text, job_description) when the endpoint does `out`
create_optimized_draft(text, jd, out) ==
    LET create == Call("client.chat.completions.create", DraftUserPrompt(text, jd)) IN
    IF out.r = "raised"
    THEN [ret |-> ApiErrorReturn(out.e), shown |-> ApiErrorShown(out.e), made |-> <<create>>]
    ELSE [ret |-> out.content,
          shown |-> RawShown("text_area: Raw API Response (Draft)", out.content),
          made |-> <<create>>]

----------------------------------------------------------------------------
(* Rendering                                                               *)

\* the text an f-string puts for {v}; a container is shown by its brackets
PyFormat(v) ==
    CASE v.t = "int" -> CHOOSE tok \in NumTok : NumVal(tok) = v.n
      [] v.t = "str" -> v.s
      [] v.t = "NoneType" -> "None"
      [] v.t = "list" -> "[...]"
      [] v.t = "dict" -> "{...}"

\* the characters of a string value
Chars(str) ==
    CASE str = "" -> <<>>
      [] str = "tip" -> <<"t", "i", "p">>
      [] str = "good" -> <<"g", "o", "o", "d">>
      [] str = "high" -> <<"h", "i", "g", "h">>

\* `for item in v`: the items, for the types that can be iterated
Iterate(v) ==
    CASE v.t = "list" -> v.l
      [] v.t = "dict" -> [i \in 1..Len(v.o) |-> PyStr(v.o[i].k)]
      [] v.t = "str" -> [i \in 1..Len(Chars(v.s)) |-> PyStr(Chars(v.s)[i])]

Iterable(v) == v.t \in {"list", "dict", "str"}

ListHeading(i) ==
    CASE i = 1 -> "### Missing Keywords & Skills"
      [] i = 2 -> "### Formatting & Clarity Suggestions"
      [] i = 3 -> "### Experience & Achievement Improvements"
      [] i = 4 -> "### Overall Tips"

\* the value shown by st.metric for the parsed reply fb
MetricScore(fb) == DictGet(fb, "match_score", PyInt(0))

RECURSIVE RenderLists(_, _, _)
\* the four loops `for item in feedback.get(key, []): st.write(...)`, then balloons
RenderLists(fb, i, acc) ==
    IF i > 4 THEN [shown |-> Append(acc, Elem("balloons", VNone)), exc |-> "none"]
    ELSE LET v == DictGet(fb, ListKeys[i], PyList(<<>>))
             acc1 == Append(acc, Elem("markdown", VStr(<<ListHeading(i)>>)))
         IN  IF ~Iterable(v) THEN [shown |-> acc1, exc |-> "TypeError"]
             ELSE RenderLists(fb, i + 1,
                     acc1 \o [j \in 1..Len(Iterate(v)) |->
                                Elem("write", VStr(<<"* ", PyFormat(Iterate(v)[j])>>))])

\* the test `if feedback:` on a bound variable
ShowFeedback(fb) == VarTruthy(fb)

\* `if feedback:` and the block under it
RenderFeedbackBlock(fb) ==
    IF fb.b = "unbound" THEN [shown |-> <<>>, exc |-> "NameError"]
    ELSE IF ~ShowFeedback(fb) THEN [shown |-> <<>>, exc |-> "none"]
    ELSE LET head == << Elem("markdown", VStr(<<"---">>)),
                        Elem("header", VStr(<<"Your Personalized Feedback">>)) >> IN
         IF fb.v.t # "dict" THEN [shown |-> head, exc |-> "AttributeError"]
         ELSE RenderLists(fb.v, 1,
                head \o << Elem("metric", VStr(<<PyFormat(MetricScore(fb.v)), "%">>)),
                           Elem("success", VStr(<<"*Quick Summary:* ",
                                PyFormat(DictGet(fb.v, "summary", PyStr("No summary provided.")))>>)) >>)

\* the test `if draft:` on a bound variable
ShowDraft(d) == VarTruthy(d)

\* `if draft:` and the block under it
RenderDraftBlock(d) ==
    IF d.b = "unbound" THEN [shown |-> <<>>, exc |-> "NameError"]
    ELSE IF ~ShowDraft(d) THEN [shown |-> <<>>, exc |-> "none"]
    ELSE [shown |-> << Elem("markdown", VStr(<<"---">>)),
                       Elem("header", VStr(<<"Optimized Resume Draft">>)),
                       Elem("info", VStr(<<"This is a starting draft.">>)),
                       Elem("markdown", d),
                       Elem("download_button", d) >>,
          exc |-> "none"]

----------------------------------------------------------------------------
(* The script                                                              *)

Warning == Elem("warning", VStr(<<"Please upload a resume and paste a job description to get started.">>))

\* a check that forgets the job description
InputsMissing_FileOnly(f, jd) == f = NoFile

\* `not uploaded_resume or not job_description`
InputsMissing(f, jd) == f = NoFile \/ jd = ""

\* `if resume_text:` before the call of the endpoint
HasText(t) == VarTruthy(t)

Init ==
    /\ uploaded_resume = NoFile
    /\ job_description = ""
    /\ pc = "idle"
    /\ flow = "none"
    /\ resume_text = Unbound
    /\ feedback = Unbound
    /\ draft = Unbound
    /\ ui = <<>>
    /\ calls = <<>>
    /\ exc = "none"
    /\ gw = NoGateway

\* a fresh run of the script: nothing bound, nothing rendered
FreshRun ==
    /\ resume_text' = Unbound
    /\ feedback' = Unbound
    /\ draft' = Unbound
    /\ calls' = <<>>
    /\ exc' = "none"
    /\ gw' = NoGateway

\* the user picks or removes a file; the script re-runs with no button pressed
UploadResume ==
    /\ pc = "idle"
    /\ \E f \in Files \cup {NoFile} : uploaded_resume' = f
    /\ FreshRun
    /\ flow' = "none"
    /\ ui' = <<>>
    /\ UNCHANGED <<job_description, pc>>

\* the user edits the job description; the script re-runs with no button pressed
EditJobDescription ==
    /\ pc = "idle"
    /\ \E jd \in JobDescriptions : job_description' = jd
    /\ FreshRun
    /\ flow' = "none"
    /\ ui' = <<>>
    /\ UNCHANGED <<uploaded_resume, pc>>

\* a button is pressed: the run starts and checks its two inputs
Click(button) ==
    /\ pc = "idle"
    /\ FreshRun
    /\ flow' = button
    /\ IF InputsMissing(uploaded_resume, job_description)
       THEN ui' = <<Warning>> /\ pc' = "idle"
       ELSE ui' = <<>> /\ pc' = "extract"
    /\ UNCHANGED <<uploaded_resume, job_description>>

ClickFeedback == Click("critique")

ClickDraft == Click("rewrite")

\* resume_text = get_resume_text(uploaded_resume); if resume_text: ...
Extract ==
    /\ pc = "extract"
    /\ LET r == get_resume_text(uploaded_resume) IN
        /\ resume_text' = r.ret
        /\ ui' = ui \o r.shown
        /\ calls' = Append(calls, Call("get_resume_text", <<>>))
        /\ pc' = IF HasText(r.ret) THEN "generate" ELSE "render"
    /\ UNCHANGED <<uploaded_resume, job_description, flow, feedback, draft, exc, gw>>

\* feedback = get_ai_feedback(resume_text, job_description)
GetAiFeedback ==
    /\ pc = "generate"
    /\ flow = "critique"
    /\ \E out \in GatewayOutcomes :
        LET r == get_ai_feedback(resume_text.s, job_description, out) IN
        /\ gw' = out
        /\ feedback' = r.ret
        /\ ui' = ui \o r.shown
        /\ calls' = calls \o r.made
    /\ pc' = "render"
    /\ UNCHANGED <<uploaded_resume, job_description, flow, resume_text, draft, exc>>

\* draft = create_optimized_draft(resume_text, job_description)
CreateOptimizedDraft ==
    /\ pc = "generate"
    /\ flow = "rewrite"
    /\ \E out \in GatewayOutcomes :
        LET r == create_optimized_draft(resume_text.s, job_description, out) IN
        /\ gw' = out
        /\ draft' = r.ret
        /\ ui' = ui \o r.shown
        /\ calls' = calls \o r.made
    /\ pc' = "render"
    /\ UNCHANGED <<uploaded_resume, job_description, flow, resume_text, feedback, exc>>

\* `if feedback:` ... st.balloons(); the run ends
RenderFeedback ==
    /\ pc = "render"
    /\ flow = "critique"
    /\ LET r == RenderFeedbackBlock(feedback) IN
        /\ ui' = ui \o r.shown
        /\ exc' = r.exc
    /\ pc' = "idle"
    /\ UNCHANGED <<uploaded_resume, job_description, flow, resume_text, feedback, draft, calls, gw>>

\* `if draft:` ... st.download_button(...); the run ends
RenderDraft ==
    /\ pc = "render"
    /\ flow = "rewrite"
    /\ LET r == RenderDraftBlock(draft) IN
        /\ ui' = ui \o r.shown
        /\ exc' = r.exc
    /\ pc' = "idle"
    /\ UNCHANGED <<uploaded_resume, job_description, flow, resume_text, feedback, draft, calls, gw>>

Next ==
    \/ UploadResume
    \/ EditJobDescription
    \/ ClickFeedback
    \/ ClickDraft
    \/ Extract
    \/ GetAiFeedback
    \/ CreateOptimizedDraft
    \/ RenderFeedback
    \/ RenderDraft

Spec == Init /\ [][Next]_vars

----------------------------------------------------------------------------
(* Properties                                                              *)

Flows == {"critique", "rewrite"}

\* the run of button f has ended
RunEnded(f) == pc = "idle" /\ flow = f

Made(callee) == \E i \in 1..Len(calls) : calls[i].f = callee
Shown(widget) == \E i \in 1..Len(ui) : ui[i].w = widget
ShownElem(e) == \E i \in 1..Len(ui) : ui[i] = e

\* the widgets that present a feedback record or a part of one
RecordWidgets == {"header", "metric", "success", "markdown", "write", "balloons"}
NoRecordShown == \A i \in 1..Len(ui) : ui[i].w \notin RecordWidgets

\* the endpoint returned the text t in this run
Replied == gw.r = "returned" /\ gw.content.b = "str"

\* C1: in both flows, when the document is absent or the job description is
\* empty at the click, the run ends at once with the validation warning and
\* calls neither get_resume_text nor the chat completion endpoint.
C1_ValidationBeforeWork ==
    (flow \in Flows /\ (uploaded_resume = NoFile \/ job_description = ""))
        => /\ pc = "idle"
           /\ ui = <<Warning>>
           /\ calls = <<>>
           /\ exc = "none"

\* scenario C: a valid document, an empty job description, the critique button
C1_Witness ==
    /\ RunEnded("critique")
    /\ uploaded_resume # NoFile /\ ~uploaded_resume.bad
    /\ job_description = ""
    /\ ui = <<Warning>>

\* C2 (as stated): for every document kind and both flows, when the parser or
\* decoder raises, the run ends with the extraction error shown and with no
\* exception escaping it, and a new run can be started.
C2_ExtractionFailureIsHandled ==
    (flow \in Flows /\ pc = "idle" /\ Made("get_resume_text") /\ uploaded_resume.bad)
        => /\ Shown("error")
           /\ exc = "none"
           /\ ENABLED ClickFeedback

\* C3: in the critique flow, when the call of the endpoint raises, json.loads
\* is never called in that run, nothing of a feedback record is rendered,
\* and the run ends with the API error shown.
C3_GatewayFailureHalts ==
    (flow = "critique" /\ gw.r = "raised")
        => /\ ~Made("json.loads")
           /\ feedback = VNone
           /\ NoRecordShown
           /\ ShownElem(Elem("error", VStr(<<"API Error: ", gw.e>>)))
           /\ exc = "none"

\* scenario D: the endpoint rejects the credentials
C3_Witness ==
    /\ RunEnded("critique")
    /\ gw.r = "raised" /\ gw.e = "AuthenticationError"
    /\ Made("client.chat.completions.create")

\* C4: in the critique flow, when the reply is not valid JSON, the run shows
\* the raw reply unmodified and the JSON decoding error, and renders no
\* feedback record.
C4_UnparsableReply ==
    (flow = "critique" /\ Replied /\ ~json_loads(gw.content.s).ok)
        => /\ ShownElem(Elem("text_area: Raw API Response (Feedback)", gw.content))
           /\ ShownElem(JsonErrorShown[1])
           /\ feedback = VNone
           /\ NoRecordShown
           /\ exc = "none"

\* the full reply truncated in the middle of the object
C4_Witness ==
    /\ RunEnded("critique")
    /\ Replied /\ gw.content.s = SubSeq(FullReply, 1, 9)
    /\ Shown("text_area: Raw API Response (Feedback)")

\* the value json.loads gives for the reply of this run
Parsed == json_loads(gw.content.s).val

\* a score forced into 0..100, anything that is not a number counting as 0
Clamped(v) ==
    IF v.t # "int" THEN 0
    ELSE IF v.n < 0 THEN 0
    ELSE IF v.n > 100 THEN 100
    ELSE v.n

\* C5 (as stated): for every reply that parses, the score presented by the
\* critique flow is the parsed score clamped to 0..100, an absent or
\* non-numeric score counting as 0.
C5_ScoreIsClamped ==
    (RunEnded("critique") /\ Replied /\ json_loads(gw.content.s).ok /\ Shown("metric"))
        => ShownElem(Elem("metric",
              VStr(<<PyFormat(PyInt(Clamped(DictGet(Parsed, "match_score", PyNone)))), "%">>)))

\* the reply r with its token i removed
Without(r, i) == SubSeq(r, 1, i - 1) \o SubSeq(r, i + 1, Len(r))

\* r is a JSON object with fields but for one stray ")" right before a
\* closing bracket or brace
OnlyStrayParen(r) ==
    /\ ~json_loads(r).ok
    /\ \E i \in 1..(Len(r) - 1) :
        /\ r[i] = ")"
        /\ r[i + 1] \in {"]", "}"}
        /\ json_loads(Without(r, i)).ok
        /\ json_loads(Without(r, i)).val.t = "dict"
        /\ Truthy(json_loads(Without(r, i)).val)

\* C6 (as stated): in the critique flow, a reply that fails to parse only
\* because of a stray character right before a closing bracket or brace is
\* repaired, and the run ends with a feedback record, not a decoding error.
C6_StrayParenIsRepaired ==
    (RunEnded("critique") /\ Replied /\ OnlyStrayParen(gw.content.s))
        => /\ Shown("metric")
           /\ ~ShownElem(JsonErrorShown[1])

\* the replies that are an object holding only some of the six fields
PartialReplies == {ObjReply(KeysIn(S), "57") : S \in (SUBSET FieldKeys) \ {FieldKeys}}

\* C7 (as stated): in the critique flow, a reply that parses but lacks some
\* or all of the six fields (the object with no fields included) ends in a
\* rendered record, an absent score shown as 0 and every section present;
\* it never ends in a failure or in no result.
C7_MissingFieldsStillRender ==
    (RunEnded("critique") /\ Replied /\ gw.content.s \in PartialReplies)
        => /\ exc = "none"
           /\ Shown("metric")
           /\ Shown("balloons")
           /\ ("match_score" \notin {Parsed.o[i].k : i \in 1..Len(Parsed.o)}
                 => ShownElem(Elem("metric", VStr(<<"0", "%">>))))

\* C8 (as stated): in the rewrite flow, every text the endpoint returns is
\* rendered as markdown and offered for download unchanged; none is dropped.
C8_DraftIsVerbatim ==
    (RunEnded("rewrite") /\ Replied)
        => /\ ShownElem(Elem("markdown", gw.content))
           /\ ShownElem(Elem("download_button", gw.content))
           /\ exc = "none"

\* the kind each failure of the endpoint is to be reported as
ExpectedKind(e) ==
    CASE e = "AuthenticationError" -> "AuthError"
      [] e \in {"APIConnectionError", "APITimeoutError"} -> "NetworkError"
      [] e = "RateLimitError" -> "RateLimitError"
      [] e = "IndexError" -> "MalformedResponseError"
      [] OTHER -> "UnknownError"

\* what the handler of the button receives from the flow's function
Received == IF flow = "critique" THEN feedback ELSE draft

\* C9 (as stated): a failure of the endpoint reaches the caller as a kind
\* chosen by its cause: what the caller receives for this failure differs
\* from what it receives for a failure of any other kind.
C9_FailureKindsDistinguishable ==
    (flow \in Flows /\ pc = "render" /\ gw.r = "raised")
        => \A e \in GatewayExceptions :
              ExpectedKind(e) # ExpectedKind(gw.e)
                 => Received #
                      (IF flow = "critique"
                       THEN get_ai_feedback(resume_text.s, job_description,
                                [r |-> "raised", e |-> e, content |-> VNone]).ret
                       ELSE create_optimized_draft(resume_text.s, job_description,
                                [r |-> "raised", e |-> e, content |-> VNone]).ret)

\* every request to the endpoint comes after get_resume_text returned and
\* carries a non-empty resume text and a non-empty job description
RequestsAreComplete ==
    \A i \in 1..Len(calls) :
        calls[i].f = "client.chat.completions.create"
            => /\ \E j \in 1..(i - 1) : calls[j].f = "get_resume_text"
               /\ resume_text.b = "str" /\ resume_text.s # <<>>
               /\ job_description # ""
               /\ calls[i].user \in {FeedbackUserPrompt(resume_text.s, job_description),
                                     DraftUserPrompt(resume_text.s, job_description)}

\* C10 (as stated): a request is issued only after extraction and only with
\* non-empty texts, and when extraction succeeds with empty text the run is
\* rejected with the validation warning before any request.
C10_EmptyTextIsRejected ==
    /\ RequestsAreComplete
    /\ (flow \in Flows /\ pc = "idle" /\ resume_text = VStr(<<>>))
          => /\ ~Made("client.chat.completions.create")
             /\ ui = <<Warning>>
             /\ exc = "none"

=============================================================================
